---- MODULE Spec2Model ----
(***************************************************************************)
(* Model of the resume-to-job matching application:                        *)
(*   srcCode/app/job_matcher.py  JobMatcher (extract_job_requirements,     *)
(*                               match_resume_to_job, rank_resumes)        *)
(*   srcCode/run.py              match_and_show_results and the job store  *)
(*   srcCode/app/resume_parser.py  ResumeParser (is_valid_resume,          *)
(*                               parse_resume)                             *)
(*                                                                         *)
(* Eight specifications share the module:                                  *)
(*   SpecScore  match_resume_to_job applied to one model response          *)
(*   SpecRank   rank_resumes applied to one list of results                *)
(*   Spec       matching runs (match_and_show_results) sharing one matcher *)
(*   SpecParse  is_valid_resume and parse_resume applied to one text       *)
(*   SpecJobs   the job-list requests with interleaved loads and saves     *)
(*   SpecFence  the parsing of one model response, plain and fenced        *)
(*   SpecMatcher  one JobMatcher used call by call                         *)
(*   SpecResumes  the resume store: upload, list, view, delete, run        *)
(***************************************************************************)
EXTENDS Integers, Sequences, FiniteSets, TLC

VARIABLES
    sc_requirements,    \* match_resume_to_job: the job_requirements argument
    sc_response,        \* match_resume_to_job: what the external model call gave
    sc_result,          \* match_resume_to_job: the value returned
    rk_pc,              \* rank_resumes: "ready" before the call, "returned" after
    rk_input,           \* rank_resumes: the match_results argument
    rk_output,          \* rank_resumes: the list returned
    cached_requirements,\* JobMatcher.cached_requirements of the shared matcher
    pc,                 \* match_and_show_results: where the request is
    selected_job,       \* whether get_selected_job() gave a job at the checks
    listed_files,       \* the number of entries the parsed folder held at the checks
    call_log,           \* the file index of each scoring model call, in call order
    resume_files,       \* the number of files os.listdir(parsed_dir) gave
    job_requirements,   \* the local job_requirements of the request
    idx,                \* the loop index of Phase 2
    match_results,      \* the local match_results list
    session,            \* session['match_results']
    redirect,           \* the page the request redirected to
    extract_calls,      \* extract_job_requirements calls made by the request
    score_calls,        \* scoring model calls made by the request
    prompt_requirements,\* the requirements each scoring prompt of the request embedded
    p1_response,        \* what the model answered to the Phase 1 extraction
    p1_returned,        \* what extract_job_requirements returned in Phase 1
    outcomes,           \* per file of Phase 2: "unreadable", "api_error", "bad_json",
                        \* "failed" (an answer that gave no result) or "scored"
    rank_calls,         \* rank_resumes calls made by the request
    pr_pc,              \* ResumeParser: "ready", "checked" (is_valid_resume returned),
                        \* "calling" (parse_resume is at its model call) or "returned"
    pr_text,            \* ResumeParser: the resume_text argument
    pr_gate,            \* ResumeParser: what is_valid_resume returned, or NotRun
    pr_calls,           \* parse_resume: external model calls made
    pr_result,          \* parse_resume: the value returned
    jobs_file,          \* the list held by JOBS_DATA_FILE ([] when the file is absent)
    requests,           \* the job-list requests in flight: what each has loaded
    uuids,              \* the number of job ids uuid4() has given out
    started,            \* the number of job-list requests started
    fs_text,            \* response parsing: the JSON text J the model wrote, or NoText
    fs_plain,           \* what parsing J as it stands gave
    fs_json_fenced,     \* what parsing J inside a fence tagged json gave
    fs_bare_fenced,     \* what parsing J inside a bare fence gave
    parsed_folder,      \* the files of PARSED_FOLDER: name, parsed record, source text
    upload_folder,      \* the names of the files of UPLOAD_FOLDER
    rs_ops,             \* the number of resume requests handled
    rs_last,            \* the last resume request and what it did
    rs_rejected,        \* the texts of the uploads the CV gate rejected so far
    mx_cache,           \* a JobMatcher used call by call: its cached_requirements
    mx_calls,           \* the number of calls made on it
    mx_last,            \* the last call: arguments, answer, value returned, cache
    mx_prev,            \* the call before the last
    mx_recent           \* the object the most recent extraction that returned one gave

scoreVars == <<sc_requirements, sc_response, sc_result>>
rankVars == <<rk_pc, rk_input, rk_output>>
runVars ==
    <<cached_requirements, pc, selected_job, listed_files, call_log, resume_files,
      job_requirements, idx, match_results, session, redirect, extract_calls, score_calls, prompt_requirements,
      p1_response, p1_returned, outcomes, rank_calls>>
parseVars == <<pr_pc, pr_text, pr_gate, pr_calls, pr_result>>
jobVars == <<jobs_file, requests, uuids, started>>
fenceVars == <<fs_text, fs_plain, fs_json_fenced, fs_bare_fenced>>
matcherVars == <<mx_cache, mx_calls, mx_last, mx_prev, mx_recent>>
storeVars == <<parsed_folder, upload_folder, rs_ops, rs_last, rs_rejected>>
vars ==
    <<sc_requirements, sc_response, sc_result, rk_pc, rk_input, rk_output,
      cached_requirements, pc, selected_job, listed_files, call_log, resume_files,
      job_requirements, idx, match_results, session, redirect, extract_calls, score_calls, prompt_requirements,
      p1_response, p1_returned, outcomes, rank_calls,
      pr_pc, pr_text, pr_gate, pr_calls, pr_result,
      jobs_file, requests, uuids, started,
      fs_text, fs_plain, fs_json_fenced, fs_bare_fenced,
      mx_cache, mx_calls, mx_last, mx_prev, mx_recent,
      parsed_folder, upload_folder, rs_ops, rs_last, rs_rejected>>

(***************************************************************************)
(* Bounds of the model.                                                    *)
(***************************************************************************)
\* longest required_skills list of a requirements object
MaxSkills == 2
\* longest matched_skills / missing_skills list in a model response
MaxListLen == 1
\* longest match_results list handed to rank_resumes
MaxResults == 4
\* largest match_score of a result handed to rank_resumes
MaxScore == 2
\* most files in the parsed-resumes folder
MaxResumes == 2
\* most tokens of a resume text
MaxTokens == 4
\* most jobs ever added
MaxJobs == 3
\* most job-list requests in flight at once
MaxInFlight == 2
\* most job-list requests started
MaxRequests == 4
\* most tokens of a model response before it is fenced
MaxResponseTokens == 4
\* most calls made on the matcher used call by call
MaxCalls == 3
\* most resume requests (uploads, deletions, views, listings, runs)
MaxStoreOps == 3

(***************************************************************************)
(* Python and JSON values.                                                 *)
(*   None             Python None                                          *)
(*   Raised           an exception leaving the function                    *)
(*   Num(t)           a JSON number, held in tenths (Num(205) is 20.5)     *)
(*   Str(n)           a JSON string that spells the integer n ("20")       *)
(*   Null             JSON null                                            *)
(*   a dict           a function whose domain is its set of keys           *)
(*   a list           a sequence                                           *)
(***************************************************************************)
None == [none |-> TRUE]
Raised == [raised |-> TRUE]
Num(tenths) == [t |-> "num", v |-> tenths]
Str(n) == [t |-> "str", v |-> n]
Null == [t |-> "null", v |-> 0]
\* a JSON array where an object or a number is expected
JsonList == [t |-> "list", v |-> 0]

IsScalar(x) == "t" \in DOMAIN x
IsDict(x) == ~IsScalar(x) /\ x # None /\ x # Raised

\* dict.get(key, default)
Get(d, key, default) == IF key \in DOMAIN d THEN d[key] ELSE default

\* d[key] = value
Put(d, key, value) ==
    [k \in DOMAIN d \cup {key} |-> IF k = key THEN value ELSE d[k]]

\* int(x) raises TypeError on None and on a list
IntRaises(x) == x.t \in {"null", "list"}

\* int(x): a float is truncated toward zero, a numeric string is parsed
IntOf(x) ==
    IF x.t = "str" THEN x.v
    ELSE IF x.v >= 0 THEN x.v \div 10 ELSE -((-x.v) \div 10)

\* a + b + c on the raw values: str + number raises TypeError
AddRaises(a, b, c) == {a.t, b.t, c.t} = {"num", "str"}

\* the value of a + b + c on JSON numbers, in tenths
AddTenths(a, b, c) == a.v + b.v + c.v

\* all sequences over S of length at most n
SeqUpTo(S, n) == UNION {[1..k -> S] : k \in 0..n}

\* all dicts whose keys are a subset of K, with values in V
DictsOver(K, V) == UNION {[D -> V] : D \in SUBSET K}

(***************************************************************************)
(* JobMatcher.match_resume_to_job, job_matcher.py lines 91-287: the part   *)
(* after the requirements have been resolved.                              *)
(*                                                                         *)
(* The external model call is an input: [kind |-> "api_error"] (the call   *)
(* raised), [kind |-> "bad_json"] (json.loads raised JSONDecodeError) or   *)
(* [kind |-> "json", json |-> v] (json.loads returned v).                  *)
(***************************************************************************)
required_fields ==
    <<"match_score", "matched_skills", "missing_skills",
      "experience_match", "education_match", "overall_explanation">>

PointKeys == {"skills_points", "experience_points", "education_points"}

DefaultFor_blank(field) ==
    IF field = "match_score" THEN Num(0)
    ELSE IF field \in {"matched_skills", "missing_skills"} THEN <<>>
    ELSE ""

\* lines 233-235: the value a missing required field is given
DefaultFor(field) ==
    IF field = "match_score" THEN Num(0)
    ELSE IF field \in {"matched_skills", "missing_skills"} THEN <<>>
    ELSE "N/A"

\* lines 228-235: every required field missing from the dict gets its default
FillDefaults(match_result) ==
    [k \in DOMAIN match_result \cup {required_fields[i] : i \in 1..Len(required_fields)} |->
        IF k \in DOMAIN match_result THEN match_result[k] ELSE DefaultFor(k)]

\* line 252: the text written to breakdown['calculation'] on a correction
CalculationText(skills_pts, exp_pts, edu_pts, calculated_total) ==
    [by |-> "repair", skills |-> skills_pts, exp |-> exp_pts, edu |-> edu_pts,
     total |-> calculated_total]

\* lines 237-252: match_score is made an int and, when a score_breakdown is
\* present, overwritten by the sum of the int() of its three points.  The
\* breakdown's own point values are left as the model gave them.  None stands
\* for an exception (caught at line 285).
RepairScore(match_result) ==
    IF IntRaises(match_result["match_score"]) THEN None
    ELSE
    LET m == Put(match_result, "match_score", IntOf(match_result["match_score"]))
    IN  IF "score_breakdown" \notin DOMAIN m THEN m
        ELSE
        LET breakdown == m["score_breakdown"]
        IN  IF ~IsDict(breakdown) THEN None
            ELSE
            LET rs == Get(breakdown, "skills_points", Num(0))
                re == Get(breakdown, "experience_points", Num(0))
                rd == Get(breakdown, "education_points", Num(0))
            IN  IF IntRaises(rs) \/ IntRaises(re) \/ IntRaises(rd) THEN None
                ELSE
                LET skills_pts == IntOf(rs)
                    exp_pts == IntOf(re)
                    edu_pts == IntOf(rd)
                    calculated_total == skills_pts + exp_pts + edu_pts
                IN  IF calculated_total # m["match_score"]
                    THEN Put(Put(m, "match_score", calculated_total),
                             "score_breakdown",
                             Put(breakdown, "calculation",
                                 CalculationText(skills_pts, exp_pts, edu_pts,
                                                 calculated_total)))
                    ELSE m

\* lines 254-277: the consistency check and the logging change nothing, but
\* line 265 adds the breakdown's raw values and raises when they do not add
LoggingRaises(match_result) ==
    /\ "score_breakdown" \in DOMAIN match_result
    /\ LET breakdown == match_result["score_breakdown"]
       IN  AddRaises(Get(breakdown, "skills_points", Num(0)),
                     Get(breakdown, "experience_points", Num(0)),
                     Get(breakdown, "education_points", Num(0)))

CheckTotal_corrects(match_result, total_skills) ==
    Put(match_result, "total_required_skills", Num(10 * total_skills))

\* lines 254-257: the reported total_required_skills is compared with the
\* number of required skills and a mismatch is printed
CheckTotal(match_result, total_skills) == match_result

\* lines 91-287
ScoreResponse(requirements, response) ==
    IF ~IsDict(requirements) THEN Raised
    ELSE IF response.kind # "json" THEN None
    ELSE IF ~IsDict(response.json) THEN None
    ELSE
    LET total_skills == Len(Get(requirements, "required_skills", <<>>))
        repaired == RepairScore(FillDefaults(response.json))
    IN  IF repaired = None THEN None
        ELSE IF LoggingRaises(repaired) THEN None
        ELSE CheckTotal(repaired, total_skills)

(***************************************************************************)
(* Inputs of match_resume_to_job.                                          *)
(***************************************************************************)
SkillNames == {"s1", "s2"}
\* names a model may put in matched_skills / missing_skills
ListNames == {"s1", "other"}

BaseRequirements ==
    ("experience_requirement" :> "2+ years") @@ ("education_requirement" :> "Bachelor")

\* requirements objects: required_skills missing, or any list of skills
ScoreRequirements ==
    {BaseRequirements}
    \cup {BaseRequirements @@ ("required_skills" :> s) : s \in SeqUpTo(SkillNames, MaxSkills)}

\* the model's own "calculation" string
ModelCalc == [by |-> "model", skills |-> 0, exp |-> 0, edu |-> 0, total |-> 0]

\* 20, 20.5, 45 (above every component's range), "20", null
PointVals == {Num(200), Num(205), Num(450), Str(20), Null}
\* 60, 75.5, "60", null
MatchScoreVals == {Num(600), Num(755), Str(60), Null}

BreakdownVals ==
    {d @@ ("calculation" :> ModelCalc) : d \in DictsOver(PointKeys, PointVals)}
    \cup {Null}

\* the score part of a response: match_score and score_breakdown, each optional
ScoreParts ==
    {ms @@ bd :
        ms \in DictsOver({"match_score"}, MatchScoreVals),
        bd \in DictsOver({"score_breakdown"}, BreakdownVals)}

\* the other fields of a response, each optional
OtherParts ==
    {a @@ b @@ c @@ d :
        a \in DictsOver({"matched_skills"}, SeqUpTo(ListNames, MaxListLen)),
        b \in DictsOver({"missing_skills"}, SeqUpTo(ListNames, MaxListLen)),
        c \in DictsOver({"experience_match", "education_match", "overall_explanation"},
                        {"text"}),
        d \in DictsOver({"total_required_skills"}, {Num(10), Num(20)})}

GoodBreakdown ==
    ("skills_points" :> Num(200)) @@ ("experience_points" :> Num(200))
    @@ ("education_points" :> Num(200)) @@ ("calculation" :> ModelCalc)

BaseScoreParts ==
    {<<>>, ("match_score" :> Num(600)) @@ ("score_breakdown" :> GoodBreakdown)}

BaseOtherPart ==
    ("matched_skills" :> <<"s1">>) @@ ("missing_skills" :> <<>>)
    @@ ("experience_match" :> "text") @@ ("education_match" :> "text")
    @@ ("overall_explanation" :> "text") @@ ("total_required_skills" :> Num(10))

\* what json.loads may return: every score part with the other fields well
\* formed, every combination of the other fields with a well-formed or an
\* empty score part, and a value that is no object
JsonValues ==
    {sp @@ BaseOtherPart : sp \in ScoreParts}
    \cup {sp @@ op : sp \in BaseScoreParts, op \in OtherParts}
    \cup {Null}

Responses ==
    {[kind |-> "api_error"], [kind |-> "bad_json"]}
    \cup {[kind |-> "json", json |-> v] : v \in JsonValues}

NoResponse == [kind |-> "none"]

(***************************************************************************)
(* JobMatcher.rank_resumes, job_matcher.py lines 289-302.                  *)
(***************************************************************************)
\* line 302: the number of results kept
TopCount == 3

\* line 297: the sort key
SortKey(x) == Get(x, "match_score", 0)

\* where sorted(..., reverse=True) puts x among results already in order:
\* behind every result whose key is not smaller (the sort is stable, and
\* reverse=True keeps the input order of equal keys)
\* mutants of InsertPosition: reverse=True forgotten (ascending order), and a
\* descending order that puts a result before the results of equal key
InsertPosition_ascending(sorted_results, x) ==
    1 + Cardinality({i \in 1..Len(sorted_results) :
                        SortKey(sorted_results[i]) <= SortKey(x)})

InsertPosition_unstable(sorted_results, x) ==
    1 + Cardinality({i \in 1..Len(sorted_results) :
                        SortKey(sorted_results[i]) > SortKey(x)})

InsertPosition(sorted_results, x) ==
    1 + Cardinality({i \in 1..Len(sorted_results) :
                        SortKey(sorted_results[i]) >= SortKey(x)})

InsertByKey(sorted_results, x) ==
    LET p == InsertPosition(sorted_results, x)
    IN  SubSeq(sorted_results, 1, p - 1) \o <<x>>
        \o SubSeq(sorted_results, p, Len(sorted_results))

\* lines 295-299: sorted(match_results, key=..., reverse=True)
RECURSIVE SortedByScore(_)
SortedByScore(results) ==
    IF results = <<>> THEN <<>>
    ELSE InsertByKey(SortedByScore(SubSeq(results, 1, Len(results) - 1)),
                     results[Len(results)])

\* mutants of TopSlice: the slice forgotten, and the last three kept
TopSlice_all(sorted_results) == sorted_results

TopSlice_last(sorted_results) ==
    SubSeq(sorted_results,
           IF Len(sorted_results) < TopCount THEN 1 ELSE Len(sorted_results) - TopCount + 1,
           Len(sorted_results))

\* line 302: sorted_results[:3]
TopSlice(sorted_results) ==
    SubSeq(sorted_results, 1,
           IF Len(sorted_results) < TopCount THEN Len(sorted_results) ELSE TopCount)

\* lines 289-302
rank_resumes(results) ==
    IF results = <<>> THEN <<>>
    ELSE TopSlice(SortedByScore(results))

\* lists of results as run.py builds them: each carries the name of its file
\* (here the position in the list) and an int match_score
RankInputs ==
    UNION {{[i \in 1..n |-> ("filename" :> i) @@ ("match_score" :> scores[i])] :
                scores \in [1..n -> 0..MaxScore]} : n \in 0..MaxResults}

(***************************************************************************)
(* JobMatcher.extract_job_requirements, job_matcher.py lines 39-73, and    *)
(* the head of match_resume_to_job, lines 78-89.                           *)
(***************************************************************************)
\* json.loads gives Python None for JSON null
FromJson(v) == IF v = Null THEN None ELSE v

\* lines 66-67: the two prints call requirements.get(), which raises on a
\* value that is no dict (required_skills is a list of strings in every
\* object considered here, so len() and join() do not raise)
ExtractPrintsRaise(requirements) == ~IsDict(requirements)

extract_job_requirements_memo(cached, response) ==
    IF cached # None THEN [returned |-> cached, cached |-> cached]
    ELSE IF response.kind # "json" THEN [returned |-> None, cached |-> cached]
    ELSE
    LET requirements == FromJson(response.json)
    IN  [returned |-> IF ExtractPrintsRaise(requirements) THEN None ELSE requirements,
         cached |-> requirements]

\* lines 39-73: the value returned and the cache afterwards.  The cache is
\* assigned (line 64) before the prints that may still raise.
extract_job_requirements(cached, response) ==
    IF response.kind # "json" THEN [returned |-> None, cached |-> cached]
    ELSE
    LET requirements == FromJson(response.json)
    IN  [returned |-> IF ExtractPrintsRaise(requirements) THEN None ELSE requirements,
         cached |-> requirements]

\* mutants of ResolveRequirements: the requirements passed by the caller are
\* ignored for the cache, and the requirements are extracted for every resume
ResolveRequirements_cache(passed, cached) ==
    IF cached = None THEN [extract |-> TRUE, use |-> None]
    ELSE [extract |-> FALSE, use |-> cached]

ResolveRequirements_always(passed, cached) == [extract |-> TRUE, use |-> None]

ResolveRequirements_fresh(passed, cached) ==
    IF passed = None THEN [extract |-> TRUE, use |-> None]
    ELSE [extract |-> FALSE, use |-> passed]

\* lines 81-85: which requirements a scoring call uses
ResolveRequirements(passed, cached) ==
    IF passed = None
    THEN IF cached = None THEN [extract |-> TRUE, use |-> None]
         ELSE [extract |-> FALSE, use |-> cached]
    ELSE [extract |-> FALSE, use |-> passed]

\* lines 103-105: the requirement content put into the scoring prompt
PromptRequirements(requirements) ==
    <<Get(requirements, "required_skills", <<>>),
      Get(requirements, "experience_requirement", "Not specified"),
      Get(requirements, "education_requirement", "Not specified")>>

\* lines 75-287: the value returned, the cache afterwards, whether the
\* extractor was invoked, whether the scoring model was called, and the
\* requirements the prompt embedded
match_resume_to_job(cached, passed, extract_response, response) ==
    LET resolved == ResolveRequirements(passed, cached)
        extraction == extract_job_requirements(cached, extract_response)
        requirements == IF resolved.extract THEN extraction.returned ELSE resolved.use
        cache_after == IF resolved.extract THEN extraction.cached ELSE cached
        base == [returned |-> None, cached |-> cache_after,
                 extracted |-> resolved.extract, called |-> FALSE, prompt |-> <<>>]
    IN  IF requirements = None THEN base
        ELSE IF ~IsDict(requirements) THEN [base EXCEPT !.returned = Raised]
        ELSE [base EXCEPT !.returned = ScoreResponse(requirements, response),
                          !.called = TRUE,
                          !.prompt = <<PromptRequirements(requirements)>>]

(***************************************************************************)
(* match_and_show_results, run.py lines 484-611, as one request in steps:  *)
(* the checks, Phase 1, one step per resume of Phase 2, Phase 3.  Other    *)
(* requests of the threaded server use the same matcher meanwhile.         *)
(***************************************************************************)
ReqA ==
    ("required_skills" :> <<"s1", "s2">>) @@ BaseRequirements
ReqB ==
    ("required_skills" :> <<"s1">>) @@ ("experience_requirement" :> "5+ years")

\* what the model may answer to the extraction prompt: two requirement
\* objects, an empty object, an array and null
ExtractResponses ==
    {[kind |-> "api_error"], [kind |-> "bad_json"]}
    \cup {[kind |-> "json", json |-> v] : v \in {ReqA, ReqB, <<>>, JsonList, Null}}

\* what the model may answer to a scoring prompt of the request
RunResponses ==
    {[kind |-> "api_error"], [kind |-> "bad_json"]}
    \cup {[kind |-> "json", json |-> sp @@ BaseOtherPart] :
            sp \in BaseScoreParts \cup {("match_score" :> Num(755))}}

\* what reading a resume file gives: an exception, or the parsed record
Unreadable == [unreadable |-> TRUE]
ResumeFiles == {Unreadable, ("name" :> "A. Candidate"), ("email" :> "a@b.c")}

\* `if not job_requirements` / `if analysis`
Falsy(x) == x = None \/ x = <<>>

AbortsRun_never(requirements) == FALSE

\* lines 523-526: the request ends when Phase 1 gave nothing
AbortsRun(requirements) == Falsy(requirements)

NextTurn_break(i, files, failed) ==
    IF i = files \/ failed THEN "phase3" ELSE "phase2"

\* lines 544, 573-579: the loop goes on to the next file whether or not
\* this one was scored; after the last file comes Phase 3
NextTurn(i, files, failed) ==
    IF i = files THEN "phase3" ELSE "phase2"

\* line 549: the candidate's name, or the file's name without its suffix
CandidateName(resume_data, json_file) ==
    IF "name" \in DOMAIN resume_data
    THEN [of |-> "record", file |-> 0]
    ELSE [of |-> "file", file |-> json_file]

FirstFailedCheck_resumes_first(job_selected, files) ==
    IF files = 0 THEN "resumes_page"
    ELSE IF ~job_selected THEN "jobs_page"
    ELSE "none"

\* lines 491-512: the page the checks redirect to, "none" when both pass;
\* the selected job is looked at first
FirstFailedCheck(job_selected, files) ==
    IF ~job_selected THEN "jobs_page"
    ELSE IF files = 0 THEN "resumes_page"
    ELSE "none"

ScoringCalls_retry(call, json_file) ==
    IF ~call.called THEN <<>>
    ELSE IF call.returned = None THEN <<json_file, json_file>>
    ELSE <<json_file>>

\* job_matcher.py 194-214 inside run.py 554-558: the scoring model calls
\* made for one file, one create() when the call gets that far
ScoringCalls(call, json_file) ==
    IF call.called THEN <<json_file>> ELSE <<>>

RunInit ==
    /\ cached_requirements = None
    /\ pc = "checks"
    /\ selected_job = FALSE
    /\ listed_files = 0
    /\ call_log = <<>>
    /\ resume_files = 0
    /\ job_requirements = None
    /\ idx = 0
    /\ match_results = <<>>
    /\ session = None
    /\ redirect = "none"
    /\ extract_calls = 0
    /\ score_calls = 0
    /\ prompt_requirements = <<>>
    /\ p1_response = NoResponse
    /\ p1_returned = None
    /\ outcomes = <<>>
    /\ rank_calls = 0

\* lines 490-512: a job must be selected and the folder must hold a file
Checks ==
    /\ pc = "checks"
    /\ \E job_selected \in BOOLEAN, files \in 0..MaxResumes :
        /\ selected_job' = job_selected
        /\ listed_files' = files
        /\ IF FirstFailedCheck(job_selected, files) # "none"
           THEN /\ pc' = "done"
                /\ redirect' = FirstFailedCheck(job_selected, files)
                /\ UNCHANGED resume_files
           ELSE /\ pc' = "phase1" /\ resume_files' = files
                /\ UNCHANGED redirect
    /\ UNCHANGED <<call_log, cached_requirements, job_requirements, idx, match_results, session,
                   extract_calls, score_calls, prompt_requirements,
                   p1_response, p1_returned, outcomes, rank_calls>>
    /\ UNCHANGED <<scoreVars, rankVars, parseVars, jobVars, fenceVars, matcherVars, storeVars>>

\* lines 521-533: Phase 1
Phase1 ==
    /\ pc = "phase1"
    /\ \E response \in ExtractResponses :
        LET extraction == extract_job_requirements(cached_requirements, response)
        IN  /\ cached_requirements' = extraction.cached
            /\ extract_calls' = extract_calls + 1
            /\ p1_response' = response
            /\ p1_returned' = extraction.returned
            /\ IF AbortsRun(extraction.returned)
               THEN /\ pc' = "done" /\ redirect' = "jobs_page"
                    /\ UNCHANGED <<job_requirements, idx>>
               ELSE /\ pc' = "phase2" /\ job_requirements' = extraction.returned
                    /\ idx' = 1
                    /\ UNCHANGED redirect
    /\ UNCHANGED <<resume_files, match_results, session, score_calls, prompt_requirements,
                   outcomes, rank_calls, selected_job, listed_files, call_log>>
    /\ UNCHANGED <<scoreVars, rankVars, parseVars, jobVars, fenceVars, matcherVars, storeVars>>

\* lines 544-579: one turn of the Phase 2 loop
Phase2 ==
    /\ pc = "phase2"
    /\ \E resume_data \in ResumeFiles, extract_response \in ExtractResponses,
          response \in RunResponses :
        IF resume_data = Unreadable
        THEN /\ outcomes' = Append(outcomes, "unreadable")
             /\ pc' = NextTurn(idx, resume_files, TRUE)
             /\ UNCHANGED <<cached_requirements, match_results, extract_calls, score_calls,
                            prompt_requirements, call_log>>
        ELSE
        LET call == match_resume_to_job(cached_requirements, job_requirements,
                                        extract_response, response)
            analysis == call.returned
        IN  /\ cached_requirements' = call.cached
            /\ extract_calls' = extract_calls + (IF call.extracted THEN 1 ELSE 0)
            /\ score_calls' = score_calls + Len(ScoringCalls(call, idx))
            /\ call_log' = call_log \o ScoringCalls(call, idx)
            /\ prompt_requirements' = prompt_requirements \o call.prompt
            /\ match_results' =
                IF IsDict(analysis) /\ ~Falsy(analysis)
                THEN Append(match_results,
                            analysis @@ ("candidate_name" :> CandidateName(resume_data, idx))
                                     @@ ("resume_id" :> CandidateName(resume_data, idx))
                                     @@ ("filename" :> idx))
                ELSE match_results
            /\ outcomes' = Append(outcomes,
                                  IF response.kind # "json" THEN response.kind
                                  ELSE IF IsDict(analysis) /\ ~Falsy(analysis)
                                  THEN "scored" ELSE "failed")
            /\ pc' = NextTurn(idx, resume_files, ~IsDict(analysis))
    /\ idx' = idx + 1
    /\ UNCHANGED <<resume_files, job_requirements, session, redirect,
                   p1_response, p1_returned, rank_calls, selected_job, listed_files>>
    /\ UNCHANGED <<scoreVars, rankVars, parseVars, jobVars, fenceVars, matcherVars, storeVars>>

\* lines 591-611: Phase 3
Phase3 ==
    /\ pc = "phase3"
    /\ session' = rank_resumes(match_results)
    /\ rank_calls' = rank_calls + 1
    /\ redirect' = "results_page"
    /\ pc' = "done"
    /\ UNCHANGED <<cached_requirements, resume_files, job_requirements, idx, match_results,
                   extract_calls, score_calls, prompt_requirements,
                   p1_response, p1_returned, outcomes, selected_job, listed_files,
                   call_log>>
    /\ UNCHANGED <<scoreVars, rankVars, parseVars, jobVars, fenceVars, matcherVars, storeVars>>

\* line 521 in another request: its Phase 1 runs on the same matcher
OtherRequestExtracts ==
    /\ \E response \in ExtractResponses :
        cached_requirements' = extract_job_requirements(cached_requirements, response).cached
    /\ UNCHANGED <<pc, resume_files, job_requirements, idx, match_results, session,
                   redirect, extract_calls, score_calls, prompt_requirements,
                   p1_response, p1_returned, outcomes, rank_calls, selected_job,
                   listed_files, call_log>>
    /\ UNCHANGED <<scoreVars, rankVars, parseVars, jobVars, fenceVars, matcherVars, storeVars>>

(***************************************************************************)
(* SpecScore: one call of match_resume_to_job with requirements passed.    *)
(***************************************************************************)
ScoreInit ==
    /\ sc_requirements = None
    /\ sc_response = NoResponse
    /\ sc_result = None

MatchResumeToJob ==
    /\ sc_response = NoResponse
    /\ \E requirements \in ScoreRequirements \cup {JsonList}, response \in Responses :
        /\ sc_requirements' = requirements
        /\ sc_response' = response
        /\ sc_result' = match_resume_to_job(None, requirements, NoResponse, response).returned
    /\ UNCHANGED <<rankVars, runVars, parseVars, jobVars, fenceVars, matcherVars, storeVars>>

(***************************************************************************)
(* SpecRank: one call of rank_resumes.                                     *)
(***************************************************************************)
RankInit ==
    /\ rk_pc = "ready"
    /\ rk_input = <<>>
    /\ rk_output = <<>>

RankResumes ==
    /\ rk_pc = "ready"
    /\ \E results \in RankInputs :
        /\ rk_input' = results
        /\ rk_output' = rank_resumes(results)
    /\ rk_pc' = "returned"
    /\ UNCHANGED <<scoreVars, runVars, parseVars, jobVars, fenceVars, matcherVars, storeVars>>

(***************************************************************************)
(* ResumeParser.is_valid_resume and parse_resume, resume_parser.py 97-422. *)
(*                                                                         *)
(* A text is a sequence of tokens, each standing for a fixed string:       *)
(*   "sp"       one blank                                                  *)
(*   "pad"      46 characters holding no keyword and no Arabic letter      *)
(*   "Skills", "Work Experience", "Hotel"   as written                     *)
(*   "khibra"   the Arabic keyword for experience with 3 diacritics (7)    *)
(*   "alkhibra" the same word with the article, no diacritics (6)          *)
(*   "marhaba"  an Arabic word that is no keyword (5)                      *)
(* A keyword is found in a text when it is found in one of its tokens.     *)
(* NoText stands for None.                                                 *)
(***************************************************************************)
Tokens ==
    {"sp", "pad", "Skills", "Work Experience", "Hotel", "khibra", "alkhibra", "marhaba"}

NoText == [t |-> "none", v |-> <<>>]
Text(tokens) == [t |-> "str", v |-> tokens]

\* len() of the token's string
TokenLen(token) ==
    CASE token = "sp" -> 1
      [] token = "pad" -> 46
      [] token = "Skills" -> 6
      [] token = "Work Experience" -> 15
      [] token = "Hotel" -> 5
      [] token = "khibra" -> 7
      [] token = "alkhibra" -> 6
      [] token = "marhaba" -> 5
      [] token = "nl" -> 1

\* lines 104, 111-129, 166: the English keywords found in the lowercased token
EnglishKeywordsIn(token) ==
    CASE token = "Skills" -> {"skills"}
      [] token = "Work Experience" -> {"experience", "work experience"}
      [] token = "Hotel" -> {"tel"}
      [] OTHER -> {}

\* lines 80-95, 132-175: the Arabic keywords found in the token once the
\* diacritics are removed from both
ArabicKeywordsIn(token) ==
    CASE token = "khibra" -> {"khibra"}
      [] token = "alkhibra" -> {"khibra", "alkhibra"}
      [] OTHER -> {}

\* line 186: the token holds a character of U+0600..U+06FF
HasArabicChar(token) == token \in {"khibra", "alkhibra", "marhaba"}

\* the tokens str.strip() drops: a blank, a newline
Whitespace == {"sp", "nl"}

\* str.strip(): whitespace is dropped from both ends
RECURSIVE LStrip(_)
LStrip(tokens) ==
    IF tokens # <<>> /\ Head(tokens) \in Whitespace THEN LStrip(Tail(tokens)) ELSE tokens

RECURSIVE RStrip(_)
RStrip(tokens) ==
    IF tokens # <<>> /\ tokens[Len(tokens)] \in Whitespace
    THEN RStrip(SubSeq(tokens, 1, Len(tokens) - 1))
    ELSE tokens

Strip(tokens) == RStrip(LStrip(tokens))

\* len() of a text
RECURSIVE CharLen(_)
CharLen(tokens) ==
    IF tokens = <<>> THEN 0 ELSE TokenLen(Head(tokens)) + CharLen(Tail(tokens))

\* line 102: the shortest trimmed text is_valid_resume looks at
MinResumeChars == 100
\* line 213: the shortest trimmed text parse_resume looks at
MinParseChars == 50
\* line 191: the number of keywords that makes a text a CV
MinKeywords == 3

TooShort_untrimmed(resume_text, least) ==
    resume_text.t = "none" \/ resume_text.v = <<>> \/ CharLen(resume_text.v) < least

\* lines 102, 213: `not resume_text or len(resume_text.strip()) < least`
TooShort(resume_text, least) ==
    resume_text.t = "none" \/ resume_text.v = <<>> \/ CharLen(Strip(resume_text.v)) < least

\* lines 166, 169-175: the keywords counted, each once
english_count(tokens) ==
    Cardinality(UNION {EnglishKeywordsIn(tokens[i]) : i \in 1..Len(tokens)})
arabic_count(tokens) ==
    Cardinality(UNION {ArabicKeywordsIn(tokens[i]) : i \in 1..Len(tokens)})
\* line 186
has_arabic(tokens) == \E i \in 1..Len(tokens) : HasArabicChar(tokens[i])

KeywordsAccept_total(total_keywords, arabic, arabic_found) ==
    total_keywords >= MinKeywords

\* lines 191-202: enough keywords, or an Arabic text with one Arabic keyword
KeywordsAccept(total_keywords, arabic, arabic_found) ==
    IF total_keywords >= MinKeywords THEN TRUE
    ELSE IF arabic /\ arabic_found > 0 THEN TRUE
    ELSE FALSE

\* lines 97-202: (is_valid, reason)
is_valid_resume(resume_text) ==
    IF TooShort(resume_text, MinResumeChars)
    THEN [is_valid |-> FALSE, reason |-> "too short"]
    ELSE
    LET total_keywords == english_count(resume_text.v) + arabic_count(resume_text.v)
    IN  IF KeywordsAccept(total_keywords, has_arabic(resume_text.v),
                          arabic_count(resume_text.v))
        THEN [is_valid |-> TRUE,
              reason |-> IF total_keywords >= MinKeywords THEN "keywords" ELSE "arabic"]
        ELSE [is_valid |-> FALSE, reason |-> "not a CV"]

GateAccepts_always(resume_text) == TRUE

\* lines 218-226: parse_resume goes on only with a text the gate accepted
GateAccepts(resume_text) == is_valid_resume(resume_text).is_valid

\* the texts handed to the parser
Texts == {NoText} \cup {Text(tokens) : tokens \in SeqUpTo(Tokens, MaxTokens)}

NotRun == [is_valid |-> FALSE, reason |-> "not run"]
NotACV == ("error" :> "NOT_A_CV") @@ ("is_valid_cv" :> "False")
\* what the model may answer to the parsing prompt
ParseResponses ==
    {[kind |-> "api_error"], [kind |-> "bad_json"],
     [kind |-> "json", json |-> ("name" :> "A. Candidate")]}

ParseInit ==
    /\ pr_pc = "ready"
    /\ pr_text = NoText
    /\ pr_gate = NotRun
    /\ pr_calls = 0
    /\ pr_result = None

\* a call of is_valid_resume
IsValidResume ==
    /\ pr_pc = "ready"
    /\ \E resume_text \in Texts :
        /\ pr_text' = resume_text
        /\ pr_gate' = is_valid_resume(resume_text)
    /\ pr_pc' = "checked"
    /\ UNCHANGED <<pr_calls, pr_result>>
    /\ UNCHANGED <<scoreVars, rankVars, runVars, jobVars, fenceVars, matcherVars, storeVars>>

\* lines 213-370: parse_resume up to its model call
ParseResumeGate ==
    /\ pr_pc = "ready"
    /\ \E resume_text \in Texts :
        /\ pr_text' = resume_text
        /\ IF TooShort(resume_text, MinParseChars)
           THEN /\ pr_pc' = "returned" /\ pr_result' = None
                /\ UNCHANGED pr_gate
           ELSE /\ pr_gate' = is_valid_resume(resume_text)
                /\ IF ~GateAccepts(resume_text)
                   THEN pr_pc' = "returned" /\ pr_result' = NotACV
                   ELSE pr_pc' = "calling" /\ UNCHANGED pr_result
    /\ UNCHANGED pr_calls
    /\ UNCHANGED <<scoreVars, rankVars, runVars, jobVars, fenceVars, matcherVars, storeVars>>

\* lines 374-422: the model call and what is made of its answer
ParseResumeCall ==
    /\ pr_pc = "calling"
    /\ pr_calls' = pr_calls + 1
    /\ \E response \in ParseResponses :
        pr_result' =
            IF response.kind # "json" THEN None
            ELSE response.json @@ ("is_valid_cv" :> "True") @@ ("output_language" :> "en")
    /\ pr_pc' = "returned"
    /\ UNCHANGED <<pr_text, pr_gate>>
    /\ UNCHANGED <<scoreVars, rankVars, runVars, jobVars, fenceVars, matcherVars, storeVars>>

(***************************************************************************)
(* The job store, run.py 50-61 and 361-465.  A job is its id and its       *)
(* selected flag; ids are 1, 2, ... in the order uuid4() gave them.  Each  *)
(* request loads the list, changes its own copy and saves it; the load and *)
(* the save of different requests may interleave.                          *)
(***************************************************************************)
\* no save made by another request since this one loaded the list
NoSave == [op |-> "none", job_id |-> 0]

\* a request that has loaded the list holds its route, its job_id, the list
\* it loaded, its changed copy and the last save another request made since
Idle == [op |-> "none", job_id |-> 0, loaded |-> <<>>, missed |-> NoSave, jobs |-> <<>>]

\* line 418: the job add_job creates
NewJob(id) == [id |-> id, selected |-> FALSE]

SelectIn_keep(jobs, job_id) ==
    [i \in 1..Len(jobs) |->
        [jobs[i] EXCEPT !.selected = jobs[i].selected \/ (jobs[i].id = job_id)]]

\* lines 439-440: job['selected'] = (job['id'] == job_id) for every job
SelectIn(jobs, job_id) ==
    [i \in 1..Len(jobs) |-> [jobs[i] EXCEPT !.selected = (jobs[i].id = job_id)]]

\* line 452: [job for job in jobs if job['id'] != job_id]
RECURSIVE DeleteFrom(_, _)
DeleteFrom(jobs, job_id) ==
    IF jobs = <<>> THEN <<>>
    ELSE IF Head(jobs).id = job_id THEN DeleteFrom(Tail(jobs), job_id)
    ELSE <<Head(jobs)>> \o DeleteFrom(Tail(jobs), job_id)

WriteFile_merge(current, jobs) ==
    jobs \o SelectSeq(current, LAMBDA job : \A i \in 1..Len(jobs) : jobs[i].id # job.id)

\* lines 57-61: save_jobs(jobs) opens the file for writing and dumps the
\* list it was given; what the file held is gone
WriteFile(current, jobs) == jobs

\* the requests after a save by request r (0 for delete_all_jobs): r has
\* ended, and those that have loaded the list and not saved yet missed it
AfterSave(r, save) ==
    [o \in 1..MaxInFlight |->
        IF o = r \/ requests[o] = Idle THEN Idle
        ELSE [requests[o] EXCEPT !.missed = save]]

\* the job_id of a request: an id given out, one not given out yet, or 0
JobIds == 0..MaxJobs

JobsInit ==
    /\ jobs_file = <<>>
    /\ requests = [r \in 1..MaxInFlight |-> Idle]
    /\ uuids = 0
    /\ started = 0

\* a request may start
CanStart(r) == requests[r] = Idle /\ started < MaxRequests

\* lines 413-423: add_job creates the job, loads the list and appends
AddJobLoads(r) ==
    /\ CanStart(r) /\ uuids < MaxJobs
    /\ uuids' = uuids + 1
    /\ requests' = [requests EXCEPT ![r] =
                        [op |-> "add_job", job_id |-> uuids + 1, loaded |-> jobs_file,
                         missed |-> NoSave,
                         jobs |-> Append(jobs_file, NewJob(uuids + 1))]]
    /\ started' = started + 1
    /\ UNCHANGED jobs_file
    /\ UNCHANGED <<scoreVars, rankVars, runVars, parseVars, fenceVars, matcherVars, storeVars>>

\* lines 436-440: select_job loads the list and marks its copy
SelectJobLoads(r) ==
    /\ CanStart(r)
    /\ \E job_id \in JobIds :
        requests' = [requests EXCEPT ![r] =
                        [op |-> "select_job", job_id |-> job_id, loaded |-> jobs_file,
                         missed |-> NoSave,
                         jobs |-> SelectIn(jobs_file, job_id)]]
    /\ started' = started + 1
    /\ UNCHANGED <<jobs_file, uuids>>
    /\ UNCHANGED <<scoreVars, rankVars, runVars, parseVars, fenceVars, matcherVars, storeVars>>

\* lines 451-452: delete_job loads the list and filters its copy
DeleteJobLoads(r) ==
    /\ CanStart(r)
    /\ \E job_id \in JobIds :
        requests' = [requests EXCEPT ![r] =
                        [op |-> "delete_job", job_id |-> job_id, loaded |-> jobs_file,
                         missed |-> NoSave,
                         jobs |-> DeleteFrom(jobs_file, job_id)]]
    /\ started' = started + 1
    /\ UNCHANGED <<jobs_file, uuids>>
    /\ UNCHANGED <<scoreVars, rankVars, runVars, parseVars, fenceVars, matcherVars, storeVars>>

\* lines 424, 442, 453: save_jobs(jobs) ends the request
SaveJobs(r) ==
    /\ requests[r] # Idle
    /\ jobs_file' = WriteFile(jobs_file, requests[r].jobs)
    /\ requests' = AfterSave(r, [op |-> requests[r].op, job_id |-> requests[r].job_id])
    /\ UNCHANGED <<uuids, started>>
    /\ UNCHANGED <<scoreVars, rankVars, runVars, parseVars, fenceVars, matcherVars, storeVars>>

\* line 462: delete_all_jobs is save_jobs([])
DeleteAllJobs ==
    /\ started < MaxRequests
    /\ jobs_file' = WriteFile(jobs_file, <<>>)
    /\ started' = started + 1
    /\ requests' = AfterSave(0, [op |-> "delete_all_jobs", job_id |-> 0])
    /\ UNCHANGED uuids
    /\ UNCHANGED <<scoreVars, rankVars, runVars, parseVars, fenceVars, matcherVars, storeVars>>

JobsNext ==
    \/ \E r \in 1..MaxInFlight :
        \/ AddJobLoads(r) \/ SelectJobLoads(r) \/ DeleteJobLoads(r) \/ SaveJobs(r)
    \/ DeleteAllJobs

(***************************************************************************)
(* Parsing a model response, job_matcher.py 52-61 (the same statements at  *)
(* 216-225 and at resume_parser.py 383-394).  A response is a sequence of  *)
(* tokens, each standing for a fixed string:                               *)
(*   "fence"   three backticks             "json"   the letters json       *)
(*   "nl"      a newline                   "a"      the letter a           *)
(*   "open"    the start of an object with one key, up to and with the     *)
(*             opening quote of its value                                  *)
(*   "close"   the closing quote of the value and the closing brace        *)
(***************************************************************************)
ResponseTokens == {"fence", "json", "nl", "a", "open", "close"}

\* str.startswith(prefix) for a one-token prefix
StartsWith(tokens, prefix) == tokens # <<>> /\ Head(tokens) = prefix

\* what follows the first fence of the text, up to the next fence
RECURSIVE UpToFence(_)
UpToFence(tokens) ==
    IF tokens = <<>> \/ Head(tokens) = "fence" THEN <<>>
    ELSE <<Head(tokens)>> \o UpToFence(Tail(tokens))

\* response_text.split(fence)[1] of a text that starts with a fence
SecondPiece(tokens) == UpToFence(Tail(tokens))

\* lines 52-59: strip, then for a fenced text the piece after the first
\* fence without a leading `json`, stripped
StripFence(tokens) ==
    LET response_text == Strip(tokens)
    IN  IF StartsWith(response_text, "fence")
        THEN LET piece == SecondPiece(response_text)
             IN  Strip(IF StartsWith(piece, "json") THEN Tail(piece) ELSE piece)
        ELSE response_text

ParseError == [ok |-> FALSE, value |-> <<>>]

\* line 61, json.loads: whitespace around the document is allowed; the
\* document is an object with one string value, whose characters may be
\* letters and backticks but no quote and no newline
JsonLoads(tokens) ==
    LET doc == Strip(tokens)
    IN  IF /\ Len(doc) >= 2
           /\ doc[1] = "open" /\ doc[Len(doc)] = "close"
           /\ \A i \in 2..(Len(doc) - 1) : doc[i] \in {"a", "json", "fence"}
        THEN [ok |-> TRUE, value |-> SubSeq(doc, 2, Len(doc) - 1)]
        ELSE ParseError

\* lines 52-61
ParseResponseText(tokens) == JsonLoads(StripFence(tokens))

\* the fenced forms of a text
JsonFenced(tokens) == <<"fence", "json", "nl">> \o tokens \o <<"nl", "fence">>
BareFenced(tokens) == <<"fence", "nl">> \o tokens \o <<"nl", "fence">>

FenceInit ==
    /\ fs_text = NoText
    /\ fs_plain = ParseError
    /\ fs_json_fenced = ParseError
    /\ fs_bare_fenced = ParseError

\* the model writes a text; it is parsed as it stands and in both fences
ParseResponse ==
    /\ fs_text = NoText
    /\ \E tokens \in SeqUpTo(ResponseTokens, MaxResponseTokens) :
        /\ fs_text' = Text(tokens)
        /\ fs_plain' = ParseResponseText(tokens)
        /\ fs_json_fenced' = ParseResponseText(JsonFenced(tokens))
        /\ fs_bare_fenced' = ParseResponseText(BareFenced(tokens))
    /\ UNCHANGED <<scoreVars, rankVars, runVars, parseVars, jobVars, matcherVars, storeVars>>

(***************************************************************************)
(* A JobMatcher used call by call (SpecMatcher): extract_job_requirements  *)
(* and match_resume_to_job without job_requirements, in any order, for     *)
(* the descriptions of two jobs.  What the model answers does not depend   *)
(* on the description here: the answer is an input of each call.           *)
(***************************************************************************)
JobDescriptions == {"job 1", "job 2"}

NoCall ==
    [op |-> "none", description |-> "", answer |-> NoResponse, returned |-> None,
     before |-> None, after |-> None, extracted |-> FALSE, prompt |-> <<>>]

\* what the model may answer to the scoring prompt of such a call
MatcherResponses ==
    {[kind |-> "api_error"], [kind |-> "json", json |-> BaseOtherPart]}

MatcherInit ==
    /\ mx_cache = None
    /\ mx_calls = 0
    /\ mx_last = NoCall
    /\ mx_prev = NoCall
    /\ mx_recent = None

\* job_matcher.py 11-73: matcher.extract_job_requirements(job_description)
ExtractJobRequirements ==
    /\ mx_calls < MaxCalls
    /\ \E description \in JobDescriptions, response \in ExtractResponses :
        LET extraction == extract_job_requirements(mx_cache, response)
        IN  /\ mx_cache' = extraction.cached
            /\ mx_last' = [op |-> "extract", description |-> description,
                           answer |-> response, returned |-> extraction.returned,
                           before |-> mx_cache, after |-> extraction.cached,
                           extracted |-> TRUE, prompt |-> <<>>]
            /\ mx_recent' = IF extraction.returned # None THEN extraction.returned
                            ELSE mx_recent
    /\ mx_prev' = mx_last
    /\ mx_calls' = mx_calls + 1
    /\ UNCHANGED <<scoreVars, rankVars, runVars, parseVars, jobVars, fenceVars, storeVars>>

\* job_matcher.py 75-287: matcher.match_resume_to_job(resume, job_description)
MatchWithoutRequirements ==
    /\ mx_calls < MaxCalls
    /\ \E description \in JobDescriptions, extract_response \in ExtractResponses,
          response \in MatcherResponses :
        LET call == match_resume_to_job(mx_cache, None, extract_response, response)
        IN  /\ mx_cache' = call.cached
            /\ mx_last' = [op |-> "match", description |-> description,
                           answer |-> IF call.extracted THEN extract_response
                                      ELSE NoResponse,
                           returned |-> call.returned,
                           before |-> mx_cache, after |-> call.cached,
                           extracted |-> call.extracted, prompt |-> call.prompt]
            /\ mx_recent' =
                IF call.extracted
                   /\ extract_job_requirements(mx_cache, extract_response).returned # None
                THEN extract_job_requirements(mx_cache, extract_response).returned
                ELSE mx_recent
    /\ mx_prev' = mx_last
    /\ mx_calls' = mx_calls + 1
    /\ UNCHANGED <<scoreVars, rankVars, runVars, parseVars, jobVars, fenceVars, storeVars>>

(***************************************************************************)
(* The resume store (SpecResumes), run.py 63-75 and 138-353.  A file name  *)
(* or a resume id is the sequence of its stem and its extensions, as in    *)
(* <<"a", ".pdf", ".json">>; a display name is a string.  A parsed file    *)
(* holds the record written and, for reference, the text it was parsed     *)
(* from.                                                                   *)
(***************************************************************************)
\* run.py 180: the least length an uploaded text must exceed
MinUploadChars == 50

\* str.endswith for a suffix of extensions
EndsWith(name, suffix) ==
    /\ Len(name) >= Len(suffix)
    /\ SubSeq(name, Len(name) - Len(suffix) + 1, Len(name)) = suffix

\* str.lower() of a stem, an extension or a display name
LowerToken(token) ==
    CASE token = "A" -> "a"
      [] token = "A. Candidate" -> "a. candidate"
      [] OTHER -> token
Lower(name) == [i \in 1..Len(name) |-> LowerToken(name[i])]

\* the names of the files a folder holds
NamesIn(folder) == {file.filename : file \in folder}

\* the orders os.listdir may give the files of a folder in
Listings(folder) ==
    {listing \in [1..Cardinality(folder) -> folder] :
        \A i, j \in 1..Cardinality(folder) : listing[i] = listing[j] => i = j}

\* resume_parser.py 204-422: parse_resume(text) when the model answers
\* `response`
parse_resume(resume_text, response) ==
    IF TooShort(resume_text, MinParseChars) THEN None
    ELSE IF ~GateAccepts(resume_text) THEN NotACV
    ELSE IF response.kind # "json" THEN None
    ELSE IF ~IsDict(response.json) THEN None
    ELSE Put(Put(response.json, "is_valid_cv", "True"), "output_language", "en")

\* run.py 180: `text and len(text.strip()) > 50`
LongEnough(text) ==
    text.t = "str" /\ text.v # <<>> /\ CharLen(Strip(text.v)) > MinUploadChars

Persisted_any(parsed_json) == parsed_json # None

\* run.py 185-192: the parsed record is written when it is not empty, is no
\* NOT_A_CV answer and carries no false is_valid_cv
Persisted(parsed_json) ==
    /\ ~Falsy(parsed_json)
    /\ Get(parsed_json, "error", "") # "NOT_A_CV"
    /\ Get(parsed_json, "is_valid_cv", "True") = "True"

\* run.py 63-75: the ids get_resumes_list gives, which are the file names
get_resumes_list(folder) ==
    {file.filename : file \in {f \in folder : EndsWith(f.filename, <<".json">>)}}

\* run.py 274-287: the file names view_resume looks for
SearchPatterns(resume_id) ==
    IF EndsWith(resume_id, <<".pdf", ".json">>) THEN {resume_id}
    ELSE IF EndsWith(resume_id, <<".pdf">>) THEN {resume_id \o <<".json">>}
    ELSE IF EndsWith(resume_id, <<".json">>) THEN {resume_id}
    ELSE {resume_id \o <<".pdf", ".json">>, resume_id \o <<".json">>}

\* run.py 312: data.get('name', data.get('candidate_name', ''))
CandidateNameOf(data) == Get(data, "name", Get(data, "candidate_name", ""))

\* run.py 315-318: the record's name is the id, letter case apart
NameMatches(data, resume_id) ==
    /\ CandidateNameOf(data) # ""
    /\ \/ <<CandidateNameOf(data)>> = resume_id
       \/ <<LowerToken(CandidateNameOf(data))>> = Lower(resume_id)

NotFound == [found |-> FALSE]

\* run.py 295-326: the loop over os.listdir(parsed_dir); each file is tried
\* by its name and, when that fails, by the name in its record, before the
\* next file is looked at
RECURSIVE FindResume(_, _)
FindResume(resume_id, listing) ==
    IF listing = <<>> THEN NotFound
    ELSE
    LET file == Head(listing)
    IN  IF ~EndsWith(file.filename, <<".json">>)
        THEN FindResume(resume_id, Tail(listing))
        ELSE IF file.filename \in SearchPatterns(resume_id)
        THEN [found |-> TRUE, by |-> "filename", file |-> file.filename,
              data |-> file.data]
        ELSE IF NameMatches(file.data, resume_id)
        THEN [found |-> TRUE, by |-> "name", file |-> file.filename,
              data |-> file.data]
        ELSE FindResume(resume_id, Tail(listing))

\* run.py 224-240: what delete_resume leaves of the two folders
DeleteParsed(folder, resume_id) ==
    {file \in folder : file.filename # resume_id \o <<".json">>}
DeleteUploaded(folder, resume_id) == folder \ {resume_id}

\* the names of the uploaded files: two PDF files and a text file
UploadNames == {<<"a", ".pdf">>, <<"b", ".pdf">>, <<"a", ".txt">>}

\* what extract_text_from_pdf gives: nothing, 46 characters, 51 characters,
\* a long text that is no CV, and a CV
Documents ==
    {NoText, Text(<<"pad">>), Text(<<"pad", "Hotel">>),
     Text(<<"pad", "pad", "Work Experience", "marhaba">>),
     Text(<<"pad", "sp", "pad", "khibra">>)}

\* what the model may answer to the parsing prompt of an upload
UploadResponses ==
    ParseResponses
    \cup {[kind |-> "json", json |-> ("name" :> n)] : n \in {"a", "A"}}
    \cup {[kind |-> "json", json |-> ("email" :> "a@b.c")],
          [kind |-> "json", json |-> JsonList]}

\* the ids a request may name: a stem, alone or with extensions
RequestIds ==
    UNION {{<<s>>, <<s, ".pdf">>, <<s, ".json">>, <<s, ".pdf", ".json">>} :
            s \in {"a", "A", "b"}}

NoRequest == [op |-> "none"]

StoreInit ==
    /\ parsed_folder = {}
    /\ upload_folder = {}
    /\ rs_ops = 0
    /\ rs_last = NoRequest
    /\ rs_rejected = {}

\* run.py 156-212: upload_resumes, one file of the request
UploadResume ==
    /\ rs_ops < MaxStoreOps
    /\ \E filename \in UploadNames, text \in Documents, response \in UploadResponses :
        LET is_pdf == EndsWith(Lower(filename), <<".pdf">>)
            parsed_json == IF is_pdf /\ LongEnough(text)
                           THEN parse_resume(text, response) ELSE None
            written == is_pdf /\ LongEnough(text) /\ Persisted(parsed_json)
            save_name == filename \o <<".json">>
        IN  /\ upload_folder' = IF is_pdf THEN upload_folder \cup {filename}
                                ELSE upload_folder
            /\ parsed_folder' =
                IF written
                THEN {file \in parsed_folder : file.filename # save_name}
                     \cup {[filename |-> save_name, data |-> parsed_json, text |-> text]}
                ELSE parsed_folder
            /\ rs_rejected' = IF parsed_json = NotACV THEN rs_rejected \cup {text}
                              ELSE rs_rejected
            /\ rs_last' = [op |-> "upload", filename |-> filename, text |-> text,
                           parsed_json |-> parsed_json, written |-> written]
    /\ rs_ops' = rs_ops + 1
    /\ UNCHANGED <<scoreVars, rankVars, runVars, parseVars, jobVars, fenceVars, matcherVars>>

\* run.py 99-103: the resumes page shows get_resumes_list()
ResumesPage ==
    /\ rs_ops < MaxStoreOps
    /\ rs_last' = [op |-> "list", ids |-> get_resumes_list(parsed_folder)]
    /\ rs_ops' = rs_ops + 1
    /\ UNCHANGED <<parsed_folder, upload_folder, rs_rejected>>
    /\ UNCHANGED <<scoreVars, rankVars, runVars, parseVars, jobVars, fenceVars, matcherVars>>

\* run.py 224-240: delete_resume(resume_id), for an id of the list or any
\* other
DeleteResume ==
    /\ rs_ops < MaxStoreOps
    /\ \E resume_id \in RequestIds \cup get_resumes_list(parsed_folder) :
        /\ parsed_folder' = DeleteParsed(parsed_folder, resume_id)
        /\ upload_folder' = DeleteUploaded(upload_folder, resume_id)
        /\ rs_last' = [op |-> "delete", resume_id |-> resume_id, success |-> TRUE,
                       listed |-> resume_id \in get_resumes_list(parsed_folder)]
    /\ rs_ops' = rs_ops + 1
    /\ UNCHANGED rs_rejected
    /\ UNCHANGED <<scoreVars, rankVars, runVars, parseVars, jobVars, fenceVars, matcherVars>>

\* run.py 242-258: delete_all_resumes
DeleteAllResumes ==
    /\ rs_ops < MaxStoreOps
    /\ parsed_folder' = {}
    /\ upload_folder' = {}
    /\ rs_last' = [op |-> "delete_all", success |-> TRUE]
    /\ rs_ops' = rs_ops + 1
    /\ UNCHANGED rs_rejected
    /\ UNCHANGED <<scoreVars, rankVars, runVars, parseVars, jobVars, fenceVars, matcherVars>>

\* run.py 260-353: view_resume(resume_id), os.listdir giving any order
ViewResume ==
    /\ rs_ops < MaxStoreOps
    /\ \E resume_id \in RequestIds, listing \in Listings(parsed_folder) :
        rs_last' = [op |-> "view", resume_id |-> resume_id,
                    names |-> [i \in 1..Len(listing) |-> listing[i].filename],
                    answer |-> FindResume(resume_id, listing)]
    /\ rs_ops' = rs_ops + 1
    /\ UNCHANGED <<parsed_folder, upload_folder, rs_rejected>>
    /\ UNCHANGED <<scoreVars, rankVars, runVars, parseVars, jobVars, fenceVars, matcherVars>>

\* run.py 504-579: a matching run takes every file os.listdir(parsed_dir)
\* gives
MatchingRun ==
    /\ rs_ops < MaxStoreOps
    /\ rs_last' = [op |-> "match", scored |-> parsed_folder]
    /\ rs_ops' = rs_ops + 1
    /\ UNCHANGED <<parsed_folder, upload_folder, rs_rejected>>
    /\ UNCHANGED <<scoreVars, rankVars, runVars, parseVars, jobVars, fenceVars, matcherVars>>

(***************************************************************************)
(* The specifications.                                                     *)
(***************************************************************************)
Init ==
    /\ ScoreInit /\ RankInit /\ RunInit /\ ParseInit /\ JobsInit /\ FenceInit
    /\ MatcherInit
    /\ StoreInit

Next == Checks \/ Phase1 \/ Phase2 \/ Phase3 \/ OtherRequestExtracts

Spec == Init /\ [][Next]_vars


ScoreNext == MatchResumeToJob

SpecScore == Init /\ [][ScoreNext]_vars

RankNext == RankResumes

SpecRank == Init /\ [][RankNext]_vars

ParseNext == IsValidResume \/ ParseResumeGate \/ ParseResumeCall

SpecParse == Init /\ [][ParseNext]_vars

SpecJobs == Init /\ [][JobsNext]_vars

FenceNext == ParseResponse

SpecFence == Init /\ [][FenceNext]_vars

MatcherNext == ExtractJobRequirements \/ MatchWithoutRequirements

SpecMatcher == Init /\ [][MatcherNext]_vars

StoreNext ==
    \/ UploadResume \/ ResumesPage \/ DeleteResume \/ DeleteAllResumes
    \/ ViewResume \/ MatchingRun

SpecResumes == Init /\ [][StoreNext]_vars

(***************************************************************************)
(* match_resume_to_job: C1 - C3.                                           *)
(***************************************************************************)
\* a MatchResult was returned
ScoreReturned == sc_response.kind = "json" /\ IsDict(sc_result)

\* the set of elements of a list
Range(seq) == {seq[i] : i \in 1..Len(seq)}

\* C1: every returned MatchResult carries a score_breakdown whose
\* skills_points + experience_points + education_points equals its match_score,
\* whatever the model returned.
C1_BreakdownSumsToScore ==
    ScoreReturned =>
        /\ "score_breakdown" \in DOMAIN sc_result
        /\ LET breakdown == sc_result["score_breakdown"]
           IN  /\ PointKeys \subseteq DOMAIN breakdown
               /\ \A k \in PointKeys : breakdown[k].t = "num"
               /\ AddTenths(breakdown["skills_points"],
                            breakdown["experience_points"],
                            breakdown["education_points"])
                    = 10 * sc_result["match_score"]

\* C2: in every returned MatchResult matched_skills and missing_skills
\* partition the required skills: subsets of required_skills, disjoint, union
\* required_skills, and len(matched_skills) + len(missing_skills) = N.
C2_SkillsPartitionRequired ==
    ScoreReturned =>
        LET required == Get(sc_requirements, "required_skills", <<>>)
            matched == sc_result["matched_skills"]
            missing == sc_result["missing_skills"]
        IN  /\ Range(matched) \subseteq Range(required)
            /\ Range(missing) \subseteq Range(required)
            /\ Range(matched) \cap Range(missing) = {}
            /\ Range(matched) \cup Range(missing) = Range(required)
            /\ Len(matched) + Len(missing) = Len(required)

\* the declared range of each breakdown component, in points
PointRange(key) ==
    IF key = "skills_points" THEN 0..40
    ELSE IF key = "experience_points" THEN 0..35
    ELSE 0..25

\* C3: every returned MatchResult has an integer match_score in 0..100 and
\* breakdown components within their declared ranges (0..40, 0..35, 0..25).
C3_ScoreAndPointsInRange ==
    ScoreReturned =>
        /\ sc_result["match_score"] \in 0..100
        /\ "score_breakdown" \in DOMAIN sc_result =>
            \A k \in PointKeys \cap DOMAIN sc_result["score_breakdown"] :
                LET p == sc_result["score_breakdown"][k]
                IN  p.t = "num" /\ \E n \in PointRange(k) : p.v = 10 * n

(***************************************************************************)
(* match_and_show_results: C4, C5.                                         *)
(***************************************************************************)
\* C4: in one matching run every candidate is scored against the same
\* requirement content: each scoring prompt embeds the required skills, the
\* experience requirement and the education requirement of the object Phase 1
\* returned, so the k-th candidate sees what the first saw.
C4_SameRequirementsForAll ==
    \A k \in 1..Len(prompt_requirements) :
        /\ prompt_requirements[k] = PromptRequirements(job_requirements)
        /\ prompt_requirements[k] = prompt_requirements[1]

\* two candidates were scored after another request had replaced the
\* matcher's cached requirements
C4_Witness ==
    /\ pc = "done"
    /\ Len(prompt_requirements) >= 2
    /\ cached_requirements # job_requirements

\* C5: within one matching run the requirement extractor is invoked exactly
\* once, in Phase 1; no scoring call of the run invokes it again.
C5_ExtractedOnce ==
    /\ extract_calls <= 1
    /\ (pc \in {"phase2", "phase3"} \/ redirect = "results_page") => extract_calls = 1

\* a run that scored two resumes ended with one extraction
C5_Witness ==
    /\ redirect = "results_page"
    /\ score_calls >= 2
    /\ extract_calls = 1

(***************************************************************************)
(* match_resume_to_job: C6.                                                *)
(***************************************************************************)
\* C6: the returned match_score does not depend on the match_score the model
\* reported: a response that differs only in its match_score field gives the
\* same returned match_score.
C6_ScoreIndependentOfReported ==
    ScoreReturned =>
        \A other \in MatchScoreVals :
            LET twin == [kind |-> "json",
                         json |-> Put(sc_response.json, "match_score", other)]
                twin_result == ScoreResponse(sc_requirements, twin)
            IN  IsDict(twin_result) =>
                    twin_result["match_score"] = sc_result["match_score"]

(***************************************************************************)
(* rank_resumes: C7 - C10.                                                 *)
(***************************************************************************)
RankReturned == rk_pc = "returned"

\* the results of the input that are not in the output
LeftOut == {i \in 1..Len(rk_input) : rk_input[i] \notin Range(rk_output)}

\* the place of a result in the input
InputIndex(x) == CHOOSE i \in 1..Len(rk_input) : rk_input[i] = x

\* C7: the output of rank_resumes is ordered by match_score descending: a
\* result that comes before another has a match_score at least as large.
C7_RankedDescending ==
    RankReturned =>
        \A i, j \in 1..Len(rk_output) :
            i < j => rk_output[i]["match_score"] >= rk_output[j]["match_score"]

\* the ranking moved a result with a larger score in front of a smaller one
C7_Witness ==
    /\ RankReturned
    /\ Len(rk_output) >= 2
    /\ rk_output[1]["match_score"] > rk_output[2]["match_score"]
    /\ rk_input[1]["match_score"] < rk_input[2]["match_score"]

\* C8: rank_resumes returns exactly min(n, 3) results for an input of n, and
\* an empty list for an empty input.
C8_RankedLength ==
    RankReturned =>
        /\ Len(rk_output) = IF Len(rk_input) < 3 THEN Len(rk_input) ELSE 3
        /\ rk_input = <<>> => rk_output = <<>>

\* an input of more than three results was cut to three
C8_Witness ==
    /\ RankReturned
    /\ Len(rk_input) > 3
    /\ Len(rk_output) = 3

\* C9: rank_resumes selects the top results: every result of the output is a
\* result of the input, none twice, and no result left out has a match_score
\* strictly greater than a result of the output.
C9_RankedSelectsTop ==
    RankReturned =>
        /\ \A j \in 1..Len(rk_output) : rk_output[j] \in Range(rk_input)
        /\ \A j, k \in 1..Len(rk_output) : j # k => rk_output[j] # rk_output[k]
        /\ \A i \in LeftOut : \A j \in 1..Len(rk_output) :
                rk_input[i]["match_score"] <= rk_output[j]["match_score"]

\* a result was left out although it came first in the input, for results with
\* strictly greater scores behind it
C9_Witness ==
    /\ RankReturned
    /\ 1 \in LeftOut
    /\ \A j \in 1..Len(rk_output) :
            rk_output[j]["match_score"] > rk_input[1]["match_score"]

\* C10: rank_resumes is stable on ties: results of equal match_score keep
\* their input order in the output, and of two such results of which one is
\* cut, the earlier in the input is the one kept.
C10_RankedStable ==
    RankReturned =>
        /\ \A i, j \in 1..Len(rk_output) :
                (i < j /\ rk_output[i]["match_score"] = rk_output[j]["match_score"])
                    => InputIndex(rk_output[i]) < InputIndex(rk_output[j])
        /\ \A i \in LeftOut : \A j \in 1..Len(rk_output) :
                rk_input[i]["match_score"] = rk_output[j]["match_score"]
                    => InputIndex(rk_output[j]) < i

\* a tie straddles the cut, and two results of the output are tied
C10_Witness ==
    /\ RankReturned
    /\ \E i \in LeftOut :
            rk_input[i]["match_score"] = rk_output[Len(rk_output)]["match_score"]
    /\ \E i, j \in 1..Len(rk_output) :
            i < j /\ rk_output[i]["match_score"] = rk_output[j]["match_score"]
    /\ rk_input[1]["match_score"] < rk_input[2]["match_score"]

(***************************************************************************)
(* Failures of a matching run (Spec).                                      *)
(***************************************************************************)
\* C11: when the Phase 1 extraction of a run gave nothing, the run ends
\* there: no match_resume_to_job call and no scoring model call was made,
\* the ranker did not run, session['match_results'] was not written and the
\* request was redirected to the jobs page.
C11_Phase1FailureAborts ==
    (extract_calls > 0 /\ (p1_returned = None \/ p1_returned = <<>>)) =>
        /\ pc = "done" /\ redirect = "jobs_page"
        /\ outcomes = <<>> /\ extract_calls = 1
        /\ score_calls = 0 /\ prompt_requirements = <<>>
        /\ match_results = <<>> /\ rank_calls = 0 /\ session = None

C11_Witness ==
    /\ pc = "done" /\ extract_calls = 1 /\ resume_files = MaxResumes
    /\ p1_response = [kind |-> "api_error"] /\ p1_returned = None

\* C12: extract_job_requirements returns None whenever the answer is not
\* JSON or the parsed answer is empty, and returns a requirements object
\* only for a non-empty parsed answer.
C12_FailureIsNone ==
    p1_response # NoResponse =>
        LET parsed == p1_response.kind = "json"
            empty == parsed /\ p1_response.json \in {<<>>, Null}
        IN  /\ (~parsed \/ empty) => p1_returned = None
            /\ p1_returned # None => (parsed /\ ~empty)

\* the files of Phase 2 with the given outcomes
FilesWith(kinds) == {i \in 1..Len(outcomes) : outcomes[i] \in kinds}

\* C13: a file that could not be read or scored is left out of
\* match_results, every other file of the folder is still scored, and the
\* results shown are the ranker's output for exactly the scored files.
C13_FailuresIsolated ==
    /\ pc = "phase2" => Len(outcomes) = idx - 1
    /\ pc = "phase3" \/ redirect = "results_page" =>
        /\ Len(outcomes) = resume_files
        /\ score_calls = Cardinality(FilesWith({"api_error", "bad_json", "failed", "scored"}))
        /\ Len(match_results) = Cardinality(FilesWith({"scored"}))
        /\ \A k \in 1..Len(match_results) :
            /\ match_results[k]["filename"] \in FilesWith({"scored"})
            /\ k > 1 => match_results[k - 1]["filename"] < match_results[k]["filename"]
    /\ redirect = "results_page" =>
        /\ rank_calls = 1
        /\ session = rank_resumes(match_results)

C13_Witness ==
    /\ redirect = "results_page" /\ resume_files = 2
    /\ outcomes[1] \in {"unreadable", "api_error", "bad_json"}
    /\ outcomes[2] = "scored"
    /\ Len(session) = 1

(***************************************************************************)
(* Failures of a scoring call (SpecScore).                                 *)
(***************************************************************************)
\* C14: whatever the requirements and whatever the model does,
\* match_resume_to_job returns a value (a result or None); no exception
\* leaves the call.
C14_NoExceptionLeaves ==
    sc_response # NoResponse => sc_result # Raised

\* the parsed answer of a scoring call that got as far as the defaults
ParsedAnswer == sc_response.json
AnswerParsed ==
    /\ sc_response.kind = "json" /\ IsDict(sc_response.json)
    /\ IsDict(sc_requirements)
MissingFields ==
    {required_fields[i] : i \in 1..Len(required_fields)} \ DOMAIN ParsedAnswer
SkillListFields == {"matched_skills", "missing_skills"}
TextFields == {"experience_match", "education_match", "overall_explanation"}

\* the five required fields other than match_score: default when missing,
\* the answer's value when present
ListsAndTextsFilled ==
    \A f \in SkillListFields \cup TextFields :
        sc_result[f] = IF f \in DOMAIN ParsedAnswer THEN ParsedAnswer[f]
                       ELSE IF f \in SkillListFields THEN <<>> ELSE "N/A"

PointsTotal(breakdown) ==
    IntOf(Get(breakdown, "skills_points", Num(0)))
    + IntOf(Get(breakdown, "experience_points", Num(0)))
    + IntOf(Get(breakdown, "education_points", Num(0)))

GateChecked == pr_pc = "checked"
\* the trimmed length of the text given
TrimmedLen == CharLen(Strip(pr_text.v))

\* C16: is_valid_resume rejects every text whose trimmed length is below
\* 100 characters, and a missing or empty text, whatever keywords it holds.
C16_ShortTextRejected ==
    (GateChecked /\ (pr_text.t = "none" \/ TrimmedLen < 100)) => ~pr_gate.is_valid

\* 100 characters, 99 once trimmed, with an Arabic keyword among them
C16_Witness ==
    /\ GateChecked /\ ~pr_gate.is_valid
    /\ pr_text = Text(<<"pad", "pad", "khibra", "sp">>)

\* C17: a text of trimmed length 100 or more is accepted exactly when its
\* English and Arabic keyword matches number 3 or more, or it holds an
\* Arabic-script character and at least one Arabic keyword matched.
C17_AcceptedByKeywords ==
    (GateChecked /\ pr_text.t = "str" /\ TrimmedLen >= 100) =>
        (pr_gate.is_valid <=>
            \/ english_count(pr_text.v) + arabic_count(pr_text.v) >= 3
            \/ has_arabic(pr_text.v) /\ arabic_count(pr_text.v) >= 1)

\* exactly 100 characters, accepted on one Arabic keyword alone
C17_Witness ==
    /\ GateChecked /\ pr_gate.is_valid
    /\ pr_text = Text(<<"pad", "sp", "pad", "khibra">>)

\* C18: parse_resume calls the model only for a text the gate accepted: a
\* text that is too short or that is_valid_resume rejects ends the call with
\* no model call made.
C18_GateBeforeModel ==
    /\ pr_calls > 0 =>
        /\ pr_gate.is_valid /\ is_valid_resume(pr_text).is_valid
        /\ pr_text.t = "str" /\ TrimmedLen >= 50
    /\ pr_pc = "calling" => pr_gate.is_valid
    /\ (pr_pc = "returned" /\ ~is_valid_resume(pr_text).is_valid) =>
        pr_calls = 0 /\ pr_result \in {None, NotACV}

\* a text long enough for both length tests that the gate rejected
C18_Witness ==
    /\ pr_pc = "returned" /\ pr_calls = 0 /\ pr_result = NotACV
    /\ pr_text = Text(<<"pad", "pad", "Work Experience", "marhaba">>)

\* a dict without one of its keys
Without(d, key) == [k \in DOMAIN d \ {key} |-> d[k]]

\* the number of required skills of the call's requirements
TrueTotal == Len(Get(sc_requirements, "required_skills", <<>>))

\* the model's answer reports a total_required_skills that is not the
\* number of required skills
TotalMismatch ==
    /\ sc_response.kind = "json" /\ IsDict(sc_response.json)
    /\ Get(sc_response.json, "total_required_skills", Num(0)) # Num(10 * TrueTotal)

\* C25: the total_required_skills of a returned result is exactly what the
\* model reported, absent when the model reported none, whether or not it
\* is the number of required skills, and every other field of the result
\* is what it would be had the model reported the true number.
C25_TotalNotCorrected ==
    IsDict(sc_result) =>
        /\ "total_required_skills" \in DOMAIN sc_result
            <=> "total_required_skills" \in DOMAIN sc_response.json
        /\ "total_required_skills" \in DOMAIN sc_result =>
            sc_result["total_required_skills"] = sc_response.json["total_required_skills"]
        /\ Without(sc_result, "total_required_skills") =
            Without(ScoreResponse(sc_requirements,
                        [kind |-> "json",
                         json |-> Put(sc_response.json, "total_required_skills",
                                      Num(10 * TrueTotal))]),
                    "total_required_skills")

\* two skills are required, the model reported one, and 1 is returned
C25_Witness ==
    /\ IsDict(sc_result) /\ TotalMismatch
    /\ TrueTotal = 2
    /\ "total_required_skills" \in DOMAIN sc_result
    /\ sc_result["total_required_skills"] = Num(10)

\* the files of the run that could be read, by their place in the listing
ReadableFiles == {i \in 1..Len(outcomes) : outcomes[i] # "unreadable"}

\* C23: in a matching run the scoring model is called once for each resume
\* file that could be read and for no other, in the order of the directory
\* listing, a file whose call failed is not called again, and the number of
\* scoring calls is the number of readable files.
C23_OneCallPerResume ==
    /\ \A k \in 1..(Len(call_log) - 1) : call_log[k] < call_log[k + 1]
    /\ {call_log[k] : k \in 1..Len(call_log)} = ReadableFiles
    /\ score_calls = Len(call_log)
    /\ score_calls = Cardinality(ReadableFiles)
    /\ pc = "phase2" => Len(outcomes) = idx - 1
    /\ redirect = "results_page" => Len(outcomes) = resume_files

\* the call for the first file failed, the second file was scored, and the
\* run made two calls, one for each
C23_Witness ==
    /\ redirect = "results_page"
    /\ outcomes = <<"api_error", "scored">>
    /\ call_log = <<1, 2>> /\ score_calls = 2

\* C24: a request that finds no selected job, or no entry in the parsed
\* folder, ends without any call of the extractor, the scoring model or
\* the ranker and without writing session['match_results']; it redirects
\* to the jobs page when no job is selected, whatever the folder holds, and
\* to the resumes page when a job is selected and the folder is empty.
C24_ChecksBeforeAnyCall ==
    (pc # "checks" /\ (~selected_job \/ listed_files = 0)) =>
        /\ pc = "done"
        /\ extract_calls = 0 /\ score_calls = 0 /\ rank_calls = 0
        /\ call_log = <<>> /\ match_results = <<>> /\ session = None
        /\ redirect = IF ~selected_job THEN "jobs_page" ELSE "resumes_page"

\* neither a selected job nor a parsed resume: the jobs page
C24_Witness ==
    /\ pc = "done" /\ ~selected_job /\ listed_files = 0
    /\ redirect = "jobs_page"

(***************************************************************************)
(* The job store (SpecJobs).                                               *)
(***************************************************************************)
\* the positions of the selected jobs of a list
SelectedIn(jobs) == {i \in 1..Len(jobs) : jobs[i].selected}

\* C19: the saved job list never holds more than one selected job, however
\* the loads and saves of add_job, select_job, delete_job and
\* delete_all_jobs interleave and whatever id select_job is given.
C19_AtMostOneSelected == Cardinality(SelectedIn(jobs_file)) <= 1

\* job 2 is the selected one of two saved jobs while another request has
\* loaded the list and selected job 1 in its copy
C19_Witness ==
    /\ Len(jobs_file) = 2
    /\ jobs_file[1].id = 1 /\ ~jobs_file[1].selected
    /\ jobs_file[2].id = 2 /\ jobs_file[2].selected
    /\ \E r \in 1..MaxInFlight :
        /\ requests[r].op = "select_job"
        /\ Len(requests[r].jobs) = 2 /\ requests[r].jobs[1].selected

\* the ids of the jobs of a list
IdsIn(jobs) == {jobs[i].id : i \in 1..Len(jobs)}

\* the ids of the selected jobs of a list
SelectedIdsIn(jobs) == {jobs[i].id : i \in SelectedIn(jobs)}

JobRoutes == {"add_job", "select_job", "delete_job"}

\* request r saves in this step, after another of the three routes saved
\* between r's load and now: both had loaded before either saved
SavesSecond(r) ==
    /\ requests[r].op \in JobRoutes /\ requests'[r] = Idle
    /\ requests[r].missed.op \in JobRoutes

\* what the request makes of the list it loaded
OwnCopy(request) ==
    CASE request.op = "add_job" -> Append(request.loaded, NewJob(request.job_id))
      [] request.op = "select_job" -> SelectIn(request.loaded, request.job_id)
      [] request.op = "delete_job" -> DeleteFrom(request.loaded, request.job_id)

\* the first saver's effect is not in the list the second saver leaves
FirstEffectLost(first, second, saved) ==
    /\ first.op = "add_job" => first.job_id \notin IdsIn(saved)
    /\ (/\ first.op = "delete_job"
        /\ first.job_id \in IdsIn(second.loaded)
        /\ ~(second.op = "delete_job" /\ second.job_id = first.job_id))
       => first.job_id \in IdsIn(saved)
    /\ (first.op = "select_job" /\ second.op # "select_job")
       => SelectedIdsIn(saved) = SelectedIdsIn(second.loaded) \cap IdsIn(saved)

\* C22: the job list is rewritten whole from the saver's own copy, so when
\* two of add_job, select_job and delete_job have both loaded the list
\* before either saves, the file after the second save is what the second
\* request made of the list it loaded, and the first saver's effect is
\* lost: the job it added is missing, the job it deleted is back if the
\* second request had loaded it and did not delete it too, and unless the
\* second request is a select_job the selection is the one it had loaded.
C22_LastWriterWins ==
    [][\A r \in 1..MaxInFlight :
        SavesSecond(r) =>
            /\ jobs_file' = OwnCopy(requests[r])
            /\ FirstEffectLost(requests[r].missed, requests[r], jobs_file')]_vars

\* two requests were made, both add_job, and both have saved: the list
\* holds job 2 and not job 1, which was saved first by a request that had
\* loaded the empty list as the other one had
C22_Witness ==
    /\ started = 2 /\ uuids = 2
    /\ \A r \in 1..MaxInFlight : requests[r] = Idle
    /\ jobs_file = <<NewJob(2)>>

(***************************************************************************)
(* Fenced responses (SpecFence).                                           *)
(***************************************************************************)
\* C20: for every JSON text J, J wrapped in a fence with the json tag and
\* J wrapped in a bare fence parse to the same value as J itself.
C20_FencedParsesAlike ==
    (fs_text # NoText /\ JsonLoads(fs_text.v).ok) =>
        /\ fs_plain = JsonLoads(fs_text.v)
        /\ fs_json_fenced = fs_plain
        /\ fs_bare_fenced = fs_plain

(***************************************************************************)
(* The matcher's cache (SpecMatcher).                                      *)
(***************************************************************************)
\* the last two calls were extractions for the same description that got
\* the same answer from the model
SameExtractionTwice ==
    /\ mx_prev.op = "extract" /\ mx_last.op = "extract"
    /\ mx_prev.description = mx_last.description
    /\ mx_prev.answer = mx_last.answer

\* C21: two extractions for the same job description whose model answers
\* are the same payload return the same value, and a returned requirements
\* object is the parsed payload unchanged.
C21_ExtractionRepeats ==
    SameExtractionTwice =>
        /\ mx_last.returned = mx_prev.returned
        /\ mx_last.returned # None =>
            /\ mx_last.answer.kind = "json"
            /\ mx_last.returned = mx_last.answer.json

\* the cache held another job's requirements before the two extractions
C21_Witness ==
    /\ SameExtractionTwice
    /\ mx_prev.before = ReqA
    /\ mx_last.returned = ReqB /\ mx_prev.returned = ReqB

\* C28: an extraction that returns None leaves the cache as it was, and an
\* extraction that changes the cache returned a requirements object, which
\* the cache then holds.
C28_CacheKeptOnFailure ==
    mx_last.op = "extract" =>
        /\ mx_last.returned = None => mx_last.after = mx_last.before
        /\ mx_last.after # mx_last.before =>
            /\ mx_last.returned # None
            /\ mx_last.after = mx_last.returned

C26_FilenameBeforeName ==
    (/\ rs_last.op = "view"
     /\ SearchPatterns(rs_last.resume_id) \cap NamesIn(parsed_folder) # {}) =>
        /\ rs_last.answer.found
        /\ rs_last.answer.file \in SearchPatterns(rs_last.resume_id)

\* the file came from a text the CV gate accepted and holds a record that
\* parse_resume marked as a valid CV
FromAcceptedText(file) ==
    /\ GateAccepts(file.text)
    /\ file.text \notin rs_rejected
    /\ IsDict(file.data)
    /\ Get(file.data, "is_valid_cv", "") = "True"

\* C27: upload_resumes writes a parsed file only for a document for which
\* parse_resume returned a record with is_valid_cv true.  A document the CV
\* gate rejected gets no parsed file, so every parsed file comes from an
\* accepted text and a later matching run takes no rejected document.
C27_RejectedNeverStored ==
    /\ \A file \in parsed_folder : FromAcceptedText(file)
    /\ rs_last.op = "upload" =>
        /\ rs_last.written =>
            /\ GateAccepts(rs_last.text)
            /\ IsDict(rs_last.parsed_json)
            /\ Get(rs_last.parsed_json, "is_valid_cv", "") = "True"
            /\ \E file \in parsed_folder :
                /\ file.filename = rs_last.filename \o <<".json">>
                /\ file.data = rs_last.parsed_json
        /\ ~GateAccepts(rs_last.text) => ~rs_last.written
    /\ rs_last.op = "match" => \A file \in rs_last.scored : FromAcceptedText(file)

\* a matching run after one upload was rejected as no CV and another was
\* stored
C27_Witness ==
    /\ rs_last.op = "match"
    /\ Text(<<"pad", "pad", "Work Experience", "marhaba">>) \in rs_rejected
    /\ rs_last.scored # {}

\* C30: after delete_resume answered success for an id that
\* get_resumes_list gave, get_resumes_list gives that id no more and no
\* later matching run finds the file.
C30_DeletedIsGone ==
    (rs_last.op = "delete" /\ rs_last.success /\ rs_last.listed) =>
        /\ rs_last.resume_id \notin get_resumes_list(parsed_folder)
        /\ rs_last.resume_id \notin NamesIn(parsed_folder)

====
